---- MODULE Spec2Model ----
(***************************************************************************)
(* The dictionary search service of JmDictMod/backend.  The repository     *)
(* holds six revisions of the same Express application:                    *)
(*                                                                         *)
(*   "json"     src/server.js:1-163        jmdictmod.json, tag ids, #frq   *)
(*   "grouped"  src/server.js:164-341      term banks, tag symbols, groups *)
(*   "sql"      src/unnamed/part_000       SQLite, asynchronous handler    *)
(*   "termid"   src/unnamed/part_001:1-210 term banks, tag ids, #frq       *)
(*   "bounded"  src/unnamed/part_001:211-413  size-bounded queryCache      *)
(*   "nocache"  src/unnamed/part_002       no cache, no sort               *)
(*                                                                         *)
(* A JavaScript string is a sequence of one-character strings, so that     *)
(* startsWith, includes, split, trim, parseInt and template concatenation  *)
(* are computed as the code computes them.                                 *)
(***************************************************************************)
EXTENDS Integers, Sequences, FiniteSets, TLC

(***************************************************************************)
(* JavaScript values that are not strings or numbers.  Each is a sequence  *)
(* whose only element is longer than one character, so it is comparable    *)
(* with every string of the model and equal to none.                       *)
(***************************************************************************)
Undefined == <<"undefined">>
Null == <<"null">>

\* An optional number: << >> is NaN / null / undefined, <<n>> is the number n.
NoNum == << >>
Num(n) == <<n>>
HasNum(x) == Len(x) = 1

(***************************************************************************)
(* String primitives (ECMAScript String.prototype)                         *)
(***************************************************************************)
SP == " "

\* String.prototype.startsWith
StartsWith(s, p) == Len(p) <= Len(s) /\ SubSeq(s, 1, Len(p)) = p

\* String.prototype.indexOf, 1-based; 0 when p does not occur in s
IndexOf(s, p) ==
    LET hits == {i \in 1..(Len(s) - Len(p) + 1) : SubSeq(s, i, i + Len(p) - 1) = p}
    IN  IF hits = {} THEN 0 ELSE CHOOSE i \in hits : \A j \in hits : i <= j

\* String.prototype.includes
Includes(s, p) == IndexOf(s, p) # 0

\* String.prototype.substring(n): the text from (0-based) position n on
Substring(s, n) == SubSeq(s, n + 1, Len(s))

\* String.prototype.trim; the only white space of the model is the blank
Trim(s) ==
    LET keep == {i \in 1..Len(s) : s[i] # SP}
    IN  IF keep = {} THEN << >>
        ELSE SubSeq(s, CHOOSE i \in keep : \A j \in keep : i <= j,
                       CHOOSE i \in keep : \A j \in keep : i >= j)

\* String.prototype.split(sep) for a non-empty separator: every piece
RECURSIVE Split(_, _)
Split(s, sep) ==
    LET i == IndexOf(s, sep)
    IN  IF i = 0 THEN <<s>>
        ELSE <<SubSeq(s, 1, i - 1)>> \o Split(SubSeq(s, i + Len(sep), Len(s)), sep)

\* Array.prototype.join(sep)
RECURSIVE Join(_, _)
Join(parts, sep) ==
    IF Len(parts) = 0 THEN << >>
    ELSE IF Len(parts) = 1 THEN parts[1]
    ELSE parts[1] \o sep \o Join(Tail(parts), sep)

UpperCase == <<"A","B","C","D","E","F","G","H","I","J","K","L","M",
               "N","O","P","Q","R","S","T","U","V","W","X","Y","Z">>
LowerCase == <<"a","b","c","d","e","f","g","h","i","j","k","l","m",
               "n","o","p","q","r","s","t","u","v","w","x","y","z">>

Lower(c) ==
    IF \E i \in 1..Len(UpperCase) : UpperCase[i] = c
    THEN LowerCase[CHOOSE i \in 1..Len(UpperCase) : UpperCase[i] = c]
    ELSE c

\* String.prototype.toLowerCase
ToLowerCase(s) == [i \in 1..Len(s) |-> Lower(s[i])]

(***************************************************************************)
(* Numbers                                                                 *)
(***************************************************************************)
Digits == <<"0","1","2","3","4","5","6","7","8","9">>
HexDigits == Digits \o <<"a","b","c","d","e","f">>

\* the value of character c as a digit of the given radix, or -1
DigitVal(c, radix) ==
    LET ds == IF radix = 16 THEN HexDigits ELSE Digits
        hit == {i \in 1..Len(ds) : ds[i] = Lower(c)}
    IN  IF hit = {} THEN -1 ELSE (CHOOSE i \in hit : TRUE) - 1

\* the value of the longest prefix of s made of digits of the radix
RECURSIVE DigitPrefix(_, _, _, _)
DigitPrefix(s, radix, acc, seen) ==
    IF Len(s) = 0 \/ DigitVal(s[1], radix) < 0
    THEN IF seen THEN Num(acc) ELSE NoNum
    ELSE DigitPrefix(Tail(s), radix, acc * radix + DigitVal(s[1], radix), TRUE)

\* parseInt(s) with no radix argument (ECMAScript 19.2.5): leading white
\* space and one sign are skipped, a 0x prefix selects radix 16, and the
\* number is the longest digit prefix of what follows; NaN when it is empty
parseInt(s) ==
    LET t == IF Trim(s) = << >> THEN << >>
             ELSE SubSeq(s, CHOOSE i \in 1..Len(s) :
                               s[i] # SP /\ \A j \in 1..(i - 1) : s[j] = SP, Len(s))
        neg == Len(t) > 0 /\ t[1] = "-"
        u == IF Len(t) > 0 /\ t[1] \in {"-", "+"} THEN Tail(t) ELSE t
        hex == Len(u) >= 2 /\ u[1] = "0" /\ Lower(u[2]) = "x"
        mag == IF hex THEN DigitPrefix(Substring(u, 2), 16, 0, FALSE)
               ELSE DigitPrefix(u, 10, 0, FALSE)
    IN  IF ~HasNum(mag) THEN NoNum
        ELSE IF neg THEN Num(0 - mag[1]) ELSE mag

\* String(n) for an integer n
RECURSIVE NatToStr(_)
NatToStr(n) ==
    IF n < 10 THEN <<Digits[n + 1]>> ELSE NatToStr(n \div 10) \o <<Digits[(n % 10) + 1]>>

NumToStr(n) == IF n < 0 THEN <<"-">> \o NatToStr(0 - n) ELSE NatToStr(n)

(***************************************************************************)
(* Bounds of the model                                                     *)
(***************************************************************************)
\* requests one run issues
MaxRequests == 2
\* requests of the SQLite revision that may wait for their rows at once
MaxInFlight == 2
\* the entry-count threshold of queryCache (`queryCache.size > 1000` in the
\* source), scaled down so that a run can exceed it
CacheThreshold == 1

(***************************************************************************)
(* The data files.  One tag bank and one dictionary serve every revision:  *)
(* `pos`/`extra` are the blank-separated tag symbols of a term-bank row    *)
(* (entry[2], entry[7]); `l` is the comma-separated tag ids of a jmdictmod *)
(* row; `o` is the frequency (entry[4] / entry.o), absent for some rows.   *)
(* The last two rows have different (term, reading) pairs whose texts      *)
(* joined by "_" are the same.                                             *)
(***************************************************************************)
TagBank ==
    << [tag |-> <<"n">>, id |-> 1,  description |-> <<"N">>],
       [tag |-> <<"v">>, id |-> 12, description |-> <<"V">>],
       [tag |-> <<"p">>, id |-> 3,  description |-> << >>] >>

Dictionary ==
    << [t |-> <<"a">>, r |-> <<"b">>, pos |-> <<"n">>, extra |-> << >>,
        l |-> <<"1">>, o |-> Num(5), m |-> << <<"A","b">> >>, g |-> 1],
       [t |-> <<"c">>, r |-> <<"a">>, pos |-> <<"n">>, extra |-> <<"p">>,
        l |-> <<"1",",","3">>, o |-> NoNum, m |-> << <<"a">> >>, g |-> 2],
       [t |-> <<"a">>, r |-> <<"b">>, pos |-> <<"v">>, extra |-> << >>,
        l |-> <<"1","2">>, o |-> Num(3), m |-> << <<"c">>, <<"a"," ","b">> >>, g |-> 1],
       [t |-> <<"b">>, r |-> <<"c">>, pos |-> <<"v"," ","n">>, extra |-> << >>,
        l |-> <<"1","2",",","1">>, o |-> Num(5), m |-> << <<"x">> >>, g |-> 3],
       [t |-> <<"a","_","b">>, r |-> <<"c">>, pos |-> <<"n">>, extra |-> << >>,
        l |-> <<"1">>, o |-> NoNum, m |-> << <<"y">> >>, g |-> 4],
       [t |-> <<"a">>, r |-> <<"b","_","c">>, pos |-> <<"n">>, extra |-> << >>,
        l |-> <<"1">>, o |-> Num(1), m |-> << <<"z">>, <<"w">> >>, g |-> 5] >>

(***************************************************************************)
(* Requests.  `query` and `mode` are req.query.query and req.query.mode:   *)
(* a string, or undefined when the parameter is absent.                    *)
(***************************************************************************)
Queries ==
    { Undefined,
      << >>,
      <<"a">>,
      <<"b">>,
      <<"c">>,
      <<"a",",","b">>,
      <<"a",",","b",",","c">>,
      <<"#">>,
      <<"#","n">>,
      <<"#","z">>,
      <<"#","n","_","e","n">>,
      <<"a"," ","#","n">>,
      <<"a"," ","#","z">>,
      <<"a"," ","#","n"," ","#","z">>,
      <<"#","f","r","q","5">>,
      <<"#","f","r","q","7">>,
      <<"#","f","r","q","5","x">>,
      <<"#","f","r","q","x">>,
      <<"a"," ","#","f","r","q","5">>,
      <<"a"," ","#","f","r","q","x">> }

Modes ==
    { Undefined,
      << >>,
      <<"e","x","a","c","t">>,
      <<"a","n","y">>,
      <<"b","o","t","h">>,
      <<"e","n","_","e","x","a","c","t">>,
      <<"e","n","_","a","n","y">>,
      <<"d","e","f","a","u","l","t">> }

\* requests of different kinds side by side: a missing query, a rejected
\* frequency filter and queries whose responses are cached
MixedWorkload ==
    { <<Undefined, <<"e","x","a","c","t">> >>,
      << << >>, Undefined >>,
      << <<"#","f","r","q","x">>, Undefined >>,
      << <<"a">>, <<"e","x","a","c","t">> >>,
      << <<"#","n">>, Undefined >> }

\* two raw queries under two modes each, among them the requests
\* (`#n`, en_exact) and (`#n_en`, exact), whose query and mode joined by "_"
\* are the same text
CollidingWorkload ==
    { <<q, m>> : q \in { <<"#","n">>, <<"#","n","_","e","n">> },
                 m \in { <<"e","x","a","c","t">>, <<"e","n","_","e","x","a","c","t">> } }

\* what the clients send in one run: one raw query under every mode, or the
\* mixed workload
Workloads == { {<<q, m>> : m \in Modes} : q \in Queries } \cup {MixedWorkload}

Variants == {"json", "grouped", "sql", "termid", "bounded", "nocache"}
SyncVariants == Variants \ {"sql"}

VARIABLES
    variant,         \* the revision that runs
    workload,        \* the requests the clients of this run send
    budget,          \* how many requests the run issues
    phase,           \* "loading" until the startup load has ended, then "ready"
    dbOk,            \* sql: whether the database could be opened
    dictionaryData,  \* the loaded entries (sql: the rows of vocab_dictionary)
    tagData,         \* tag symbol -> description
    tagIdMap,        \* tag symbol -> id
    cache,           \* cache / queryCache: key -> response
    inflight,        \* sql: requests whose db.all callback is pending
    started,         \* requests whose handler has run
    done,            \* requests that have been answered
    last,            \* the request answered last, as the client saw it
    prev             \* the request answered before it

vars == <<variant, workload, budget, phase, dbOk, dictionaryData, tagData,
          tagIdMap, cache, inflight, started, done, last, prev>>

EmptyMap == [x \in {} |-> x]
NoRequest == [idx |-> 0]

\* tagData[key]: Undefined for a missing key
Get(map, key) == IF key \in DOMAIN map THEN map[key] ELSE Undefined
\* tagIdMap[key]: a number, or NoNum (undefined) for a missing key
GetId(map, key) == IF key \in DOMAIN map THEN map[key] ELSE NoNum

\* truthiness of a number or undefined (undefined, NaN and 0 are falsy)
TruthyNum(v) == HasNum(v) /\ v[1] # 0
\* truthiness of a string or null/undefined (the empty string is falsy)
TruthyStr(v) == v # Undefined /\ v # Null /\ v # << >>

\* the state when the module starts to load, for a run of one of the
\* revisions `revisions` that issues `requests` requests of one of the
\* workloads `workloads`
StartWith(revisions, requests, workloads) ==
    /\ variant \in revisions
    /\ workload \in workloads
    /\ budget = requests
    /\ phase = "loading"
    /\ dbOk \in (IF variant = "sql" THEN BOOLEAN ELSE {TRUE})
    /\ dictionaryData = IF variant = "sql" /\ dbOk THEN Dictionary ELSE << >>
    /\ tagData = EmptyMap
    /\ tagIdMap = EmptyMap
    /\ cache = EmptyMap
    /\ inflight = {}
    /\ started = 0
    /\ done = 0
    /\ last = NoRequest
    /\ prev = NoRequest

Start(revisions, requests) == StartWith(revisions, requests, Workloads)

Init == Start(Variants, MaxRequests)

\* description per tag symbol, as the forEach over the tag rows leaves it
TagDescriptions(orTag) ==
    [s \in {TagBank[i].tag : i \in 1..Len(TagBank)} |->
        LET row == TagBank[CHOOSE i \in 1..Len(TagBank) : TagBank[i].tag = s]
        IN  IF orTag /\ row.description = << >> THEN s ELSE row.description]

TagIds ==
    [s \in {TagBank[i].tag : i \in 1..Len(TagBank)} |->
        Num(TagBank[CHOOSE i \in 1..Len(TagBank) : TagBank[i].tag = s].id)]

\* loadData(): runs to its end while the module is loaded, before the app is
\* exported.  loadJSON returns null for a missing or malformed file, and the
\* store that file feeds then stays empty.
loadData(tagOk, idOk, dictOk) ==
    /\ variant \in SyncVariants
    /\ phase = "loading"
    /\ variant = "json" => tagOk
    /\ variant \in {"grouped", "bounded", "nocache"} => idOk
    /\ tagData' = IF variant = "json"
                  THEN (IF idOk THEN TagDescriptions(TRUE) ELSE EmptyMap)
                  ELSE (IF tagOk THEN TagDescriptions(FALSE) ELSE EmptyMap)
    /\ tagIdMap' = IF variant \in {"json", "termid"} /\ idOk THEN TagIds ELSE EmptyMap
    /\ dictionaryData' = IF dictOk THEN Dictionary ELSE << >>
    /\ phase' = "ready"
    /\ UNCHANGED <<variant, workload, budget, dbOk, cache, inflight, started,
                   done, last, prev>>

(***************************************************************************)
(* Query parsing                                                           *)
(***************************************************************************)
HASH == <<"#">>
SPHASH == <<" ", "#">>
FRQ == <<"f","r","q">>
COMMA == <<",">>
BLANK == <<" ">>

Parsed(bad, term, tag, only, frq) ==
    [bad |-> bad, searchTerm |-> term, tagFilter |-> tag,
     tagOnlySearch |-> only, frequencyFilter |-> frq]

\* json, sql, termid: frequency filter, tag-only filter, embedded filter.
\* `bad` is the isNaN(frequencyFilter) early return.
ParseQueryFrq(query) ==
    IF StartsWith(query, HASH \o FRQ)
    THEN LET f == parseInt(Trim(Substring(query, 4)))
         IN  Parsed(~HasNum(f), query, Null, HasNum(f), f)
    ELSE IF StartsWith(query, HASH)
    THEN Parsed(FALSE, query, Trim(Substring(query, 1)), TRUE, NoNum)
    ELSE IF Includes(query, SPHASH)
    THEN LET parts == Split(query, SPHASH)
         IN  IF StartsWith(parts[2], FRQ)
             THEN LET f == parseInt(Trim(Substring(parts[2], 3)))
                  IN  Parsed(~HasNum(f), Trim(parts[1]), Null, FALSE, f)
             ELSE Parsed(FALSE, Trim(parts[1]), Trim(parts[2]), FALSE, NoNum)
    ELSE Parsed(FALSE, query, Null, FALSE, NoNum)

\* grouped, nocache: tag-only filter and embedded tag filter, no frequency
ParseQueryTag(query) ==
    IF StartsWith(query, HASH)
    THEN Parsed(FALSE, query, Trim(Substring(query, 1)), TRUE, NoNum)
    ELSE IF Includes(query, SPHASH)
    THEN LET parts == Split(query, SPHASH)
         IN  Parsed(FALSE, Trim(parts[1]), Trim(parts[2]), FALSE, NoNum)
    ELSE Parsed(FALSE, query, Null, FALSE, NoNum)

\* bounded: the same on the trimmed query; a bare "#" leaves tagFilter null
ParseQueryTrimmed(query) ==
    LET trimmedQuery == Trim(query)
    IN  IF trimmedQuery = HASH \/ StartsWith(trimmedQuery, HASH \o BLANK)
           \/ StartsWith(trimmedQuery, HASH \o BLANK \o BLANK)
        THEN LET rest == Trim(Substring(trimmedQuery, 1))
             IN  Parsed(FALSE, query, IF rest = << >> THEN Null ELSE rest, TRUE, NoNum)
        ELSE IF StartsWith(trimmedQuery, HASH)
        THEN Parsed(FALSE, query, Trim(Substring(trimmedQuery, 1)), TRUE, NoNum)
        ELSE IF Includes(trimmedQuery, SPHASH)
        THEN LET parts == Split(trimmedQuery, SPHASH)
             IN  Parsed(FALSE, Trim(parts[1]), Trim(parts[2]), FALSE, NoNum)
        ELSE Parsed(FALSE, query, Null, FALSE, NoNum)

ParseQuery(query) ==
    IF variant \in {"json", "sql", "termid"} THEN ParseQueryFrq(query)
    ELSE IF variant = "bounded" THEN ParseQueryTrimmed(query)
    ELSE ParseQueryTag(query)

(***************************************************************************)
(* Matching                                                                *)
(***************************************************************************)
EXACT == <<"e","x","a","c","t">>
ANY == <<"a","n","y">>
BOTH == <<"b","o","t","h">>
EN_EXACT == <<"e","n","_","e","x","a","c","t">>
EN_ANY == <<"e","n","_","a","n","y">>

\* ExactMatches that compares the reading only
ExactMatches_ReadingOnly(entry, searchTerm) == entry.r = searchTerm

\* mode "exact": entry.t === searchTerm || entry.r === searchTerm
ExactMatches(entry, searchTerm) == entry.t = searchTerm \/ entry.r = searchTerm

\* mode "any": entry.t.includes(searchTerm) || entry.r.includes(searchTerm)
AnyMatches(entry, searchTerm) ==
    Includes(entry.t, searchTerm) \/ Includes(entry.r, searchTerm)

\* BothMatches that accepts any reading when the search term has no comma
BothMatches_KanjiAlone(entry, searchTerm) ==
    LET parts == Split(searchTerm, COMMA)
    IN  entry.t = parts[1] /\ (Len(parts) < 2 \/ entry.r = parts[2])

\* mode "both": const [kanji, reading] = searchTerm.split(",");
\* entry.t === kanji && entry.r === reading
BothMatches(entry, searchTerm) ==
    LET parts == Split(searchTerm, COMMA)
    IN  entry.t = parts[1]
        /\ entry.r = (IF Len(parts) >= 2 THEN parts[2] ELSE Undefined)

\* mode "en_exact": some meaning equals the search term, case ignored
EnExactMatches(entry, searchTerm) ==
    \E i \in 1..Len(entry.m) : ToLowerCase(entry.m[i]) = ToLowerCase(searchTerm)

\* mode "en_any": some meaning contains the search term, case ignored
EnAnyMatches(entry, searchTerm) ==
    \E i \in 1..Len(entry.m) : Includes(ToLowerCase(entry.m[i]), ToLowerCase(searchTerm))

\* the mode chain of the filter callback: the term-axis predicate
TermMatches(entry, searchTerm, mode) ==
    IF mode = EXACT THEN ExactMatches(entry, searchTerm)
    ELSE IF mode = ANY THEN AnyMatches(entry, searchTerm)
    ELSE IF mode = BOTH THEN BothMatches(entry, searchTerm)
    ELSE IF mode = EN_EXACT THEN EnExactMatches(entry, searchTerm)
    ELSE IF mode = EN_ANY THEN EnAnyMatches(entry, searchTerm)
    ELSE FALSE

\* tags.some(tagId => tagIdMap[tagFilter] && tagId === String(tagIdMap[tagFilter]))
\* over the comma-separated id list `ids`
TagIdMatches(ids, tagFilter) ==
    LET id == GetId(tagIdMap, tagFilter)
        tags == Split(ids, COMMA)
    IN  \E i \in 1..Len(tags) : TruthyNum(id) /\ tags[i] = NumToStr(id[1])

\* `raw ? raw.split(" ") : []`
SplitTags(raw) == IF TruthyStr(raw) THEN Split(raw, BLANK) ELSE << >>

\* grouped, bounded, nocache: getTagDescriptions, the known tags of an entry
getTagDescriptions(posRaw, extraRaw) ==
    LET all == SplitTags(posRaw) \o SplitTags(extraRaw)
    IN  SelectSeq([i \in 1..Len(all) |->
                      [tag |-> all[i], description |-> Get(tagData, all[i])]],
                  LAMBDA d : TruthyStr(d.description))

\* termid: getTagDescriptions, the comma-joined ids of an entry's known tags
getTagIds(posRaw, extraRaw) ==
    LET all == SplitTags(posRaw) \o SplitTags(extraRaw)
        known == SelectSeq(all, LAMBDA tag : TruthyStr(Get(tagData, tag))
                                              /\ TruthyNum(GetId(tagIdMap, tag)))
    IN  Join([i \in 1..Len(known) |-> NumToStr(GetId(tagIdMap, known[i])[1])], COMMA)

\* TagSymbolMatches that lets every entry pass a tag it cannot resolve
TagSymbolMatches_UnknownPasses(entry, tagFilter) ==
    LET tags == getTagDescriptions(entry.pos, entry.extra)
    IN  \/ ~TruthyStr(Get(tagData, tagFilter))
        \/ \E i \in 1..Len(tags) : tags[i].tag = tagFilter

\* tags.some(tag => tag.tag === tagFilter)
TagSymbolMatches(entry, tagFilter) ==
    LET tags == getTagDescriptions(entry.pos, entry.extra)
    IN  \E i \in 1..Len(tags) : tags[i].tag = tagFilter

\* the comma-separated id list a revision reads off an entry
EntryIds(entry) == IF variant = "termid" THEN getTagIds(entry.pos, entry.extra) ELSE entry.l

\* the frequency a revision reads off an entry: parseInt(entry.o), or entry[4]
EntryFrequency(entry) ==
    IF variant = "json"
    THEN (IF HasNum(entry.o) THEN parseInt(NumToStr(entry.o[1])) ELSE NoNum)
    ELSE entry.o

\* FilterById whose frequency search also asks for the term to match
FilterById_FrequencyAndTerm(entry, p, mode) ==
    IF HasNum(p.frequencyFilter)
    THEN EntryFrequency(entry) = p.frequencyFilter /\ TermMatches(entry, p.searchTerm, mode)
    ELSE IF p.tagOnlySearch THEN TagIdMatches(EntryIds(entry), p.tagFilter)
    ELSE IF TruthyStr(p.tagFilter)
    THEN TermMatches(entry, p.searchTerm, mode) /\ TagIdMatches(EntryIds(entry), p.tagFilter)
    ELSE TermMatches(entry, p.searchTerm, mode)

\* json, termid: the filter callback
FilterById(entry, p, mode) ==
    LET termMatches ==
            IF HasNum(p.frequencyFilter)
            THEN EntryFrequency(entry) = p.frequencyFilter
            ELSE IF p.tagOnlySearch THEN TagIdMatches(EntryIds(entry), p.tagFilter)
            ELSE TermMatches(entry, p.searchTerm, mode)
    IN  IF ~p.tagOnlySearch /\ ~TruthyNum(p.frequencyFilter) /\ TruthyStr(p.tagFilter)
        THEN termMatches /\ TagIdMatches(EntryIds(entry), p.tagFilter)
        ELSE termMatches

\* grouped, nocache: the filter callback
FilterBySymbol(entry, p, mode) ==
    LET termMatches ==
            IF p.tagOnlySearch THEN TagSymbolMatches(entry, p.tagFilter)
            ELSE TermMatches(entry, p.searchTerm, mode)
    IN  IF ~p.tagOnlySearch /\ TruthyStr(p.tagFilter)
        THEN termMatches /\ TagSymbolMatches(entry, p.tagFilter)
        ELSE termMatches

\* bounded: a null tagFilter of a tag-only search selects the whole store
FilterBounded(entry, p, mode) ==
    IF p.tagOnlySearch
    THEN (IF ~TruthyStr(p.tagFilter) THEN TRUE ELSE TagSymbolMatches(entry, p.tagFilter))
    ELSE IF TruthyStr(p.tagFilter)
    THEN TermMatches(entry, p.searchTerm, mode) /\ TagSymbolMatches(entry, p.tagFilter)
    ELSE TermMatches(entry, p.searchTerm, mode)

FilterEntry(entry, p, mode) ==
    IF variant \in {"json", "termid"} THEN FilterById(entry, p, mode)
    ELSE IF variant = "bounded" THEN FilterBounded(entry, p, mode)
    ELSE FilterBySymbol(entry, p, mode)

(***************************************************************************)
(* Ordering, grouping and the response                                     *)
(***************************************************************************)
\* `(parseInt(b.o) || 0)` / `(b[4] || 0)`: a missing rank sorts as 0
SortKey(entry) ==
    LET f == EntryFrequency(entry) IN IF HasNum(f) THEN f[1] ELSE 0

\* e put behind every element of the sorted s that does not rank below it
RECURSIVE InsertDesc(_, _)
InsertDesc(s, e) ==
    IF Len(s) = 0 THEN <<e>>
    ELSE IF SortKey(Head(s)) >= SortKey(e) THEN <<Head(s)>> \o InsertDesc(Tail(s), e)
    ELSE <<e>> \o s

RECURSIVE SortFrom(_, _)
SortFrom(sorted, rest) ==
    IF Len(rest) = 0 THEN sorted ELSE SortFrom(InsertDesc(sorted, Head(rest)), Tail(rest))

\* results.sort((a, b) => (b.o || 0) - (a.o || 0)): stable, descending;
\* bounded and nocache do not sort
SortResults(results) ==
    IF variant \in {"bounded", "nocache"} THEN results ELSE SortFrom(<< >>, results)

UNDERSCORE == <<"_">>

\* the forEach that builds groupedResults; `groups` keeps insertion order,
\* as Object.values does for these keys
RECURSIVE GroupFrom(_, _)
GroupFrom(groups, rest) ==
    IF Len(rest) = 0 THEN groups
    ELSE LET entry == Head(rest)
             termKey == entry.t \o UNDERSCORE \o entry.r
             at == {i \in 1..Len(groups) : groups[i].key = termKey}
             fresh == [key |-> termKey, term |-> entry.t, reading |-> entry.r,
                       meanings |-> entry.m,
                       tags |-> getTagDescriptions(entry.pos, entry.extra),
                       frequency |-> IF variant = "grouped" THEN entry.o ELSE NoNum]
         IN  IF at = {} THEN GroupFrom(Append(groups, fresh), Tail(rest))
             ELSE LET i == CHOOSE j \in at : TRUE
                  IN  GroupFrom([groups EXCEPT ![i].meanings = @ \o entry.m], Tail(rest))

groupedResults(results) ==
    LET groups == GroupFrom(<< >>, results)
    IN  [i \in 1..Len(groups) |->
            [term |-> groups[i].term, reading |-> groups[i].reading,
             meanings |-> groups[i].meanings, tags |-> groups[i].tags,
             frequency |-> groups[i].frequency]]

\* results.map(entry => ({...})) of json, sql and termid
formattedResults(results) ==
    IF variant = "termid"
    THEN [i \in 1..Len(results) |->
            [term |-> results[i].t, reading |-> results[i].r, meanings |-> results[i].m,
             tags |-> getTagIds(results[i].pos, results[i].extra),
             frequency |-> IF HasNum(results[i].o) THEN NumToStr(results[i].o[1]) ELSE << >>,
             group |-> NumToStr(results[i].g)]]
    ELSE [i \in 1..Len(results) |->
            [t |-> results[i].t, r |-> results[i].r, m |-> results[i].m,
             l |-> results[i].l, o |-> results[i].o, g |-> results[i].g]]

Ok(list) == [status |-> 200, error |-> "", totalResults |-> Len(list), results |-> list]
Fail(status, error) == [status |-> status, error |-> error, totalResults |-> 0, results |-> << >>]

MissingQuery == Fail(400, "Query parameter is required")
InvalidFrequency == Fail(400, "Invalid frequency value")
DatabaseError == Fail(500, "Database query error")

\* the response object built from the matched entries
BuildResponse(results) ==
    IF variant \in {"grouped", "bounded", "nocache"} THEN Ok(groupedResults(results))
    ELSE Ok(formattedResults(results))

(***************************************************************************)
(* The cache                                                               *)
(***************************************************************************)
DEFAULT == <<"d","e","f","a","u","l","t">>

\* getCacheKey with the mode left out of the key
getCacheKey_NoMode(query, mode) == query \o UNDERSCORE \o DEFAULT

\* `${query}_${mode || 'default'}`
getCacheKey(query, mode) == query \o UNDERSCORE \o (IF TruthyStr(mode) THEN mode ELSE DEFAULT)

HasCache == variant # "nocache"

\* CacheHit that never finds the entry
CacheHit_Never(cacheKey) == FALSE

\* cache.get(cacheKey) truthy / queryCache.has(cacheKey)
CacheHit(cacheKey) == HasCache /\ cacheKey \in DOMAIN cache

Put(map, key, value) == [k \in DOMAIN map \cup {key} |-> IF k = key THEN value ELSE map[k]]

\* CacheStore without the clear
CacheStore_NoClear(cacheKey, response) ==
    IF ~HasCache THEN cache ELSE Put(cache, cacheKey, response)

\* cache.set(cacheKey, response); bounded clears queryCache first once it
\* holds more than the threshold
CacheStore(cacheKey, response) ==
    IF ~HasCache THEN cache
    ELSE IF variant = "bounded" /\ Cardinality(DOMAIN cache) > CacheThreshold
    THEN Put(EmptyMap, cacheKey, response)
    ELSE Put(cache, cacheKey, response)

(***************************************************************************)
(* The request handler of the synchronous revisions                        *)
(***************************************************************************)
NoParse == Parsed(FALSE, Null, Null, FALSE, NoNum)

\* what one run of a handler did: the cache key it derived, whether it
\* answered from the cache, whether it matched entries (`work`), whether it
\* stores its response, its parse, the matched entries in response order,
\* and the response
Outcome(key, hit, work, store, p, matched, resp) ==
    [key |-> key, hit |-> hit, work |-> work, store |-> store, parsed |-> p,
     matched |-> matched, resp |-> resp]

\* dictionaryData.filter(...) followed by the sort
MatchEntries(p, mode) ==
    SortResults(SelectSeq(dictionaryData, LAMBDA entry : FilterEntry(entry, p, mode)))

\* QueryMissing that tests for the absent parameter only
QueryMissing_AbsentOnly(query) == query = Undefined

\* `if (!query)`: the parameter is absent or the empty string
QueryMissing(query) == ~TruthyStr(query)

\* app.get("/api/search", (req, res) => ...) of json, grouped, termid,
\* bounded and nocache
Handle(query, mode) ==
    IF QueryMissing(query)
    THEN Outcome(Null, FALSE, FALSE, FALSE, NoParse, << >>, MissingQuery)
    ELSE LET cacheKey == IF HasCache THEN getCacheKey(query, mode) ELSE Null
         IN  IF CacheHit(cacheKey)
             THEN Outcome(cacheKey, TRUE, FALSE, FALSE, NoParse, << >>, cache[cacheKey])
             ELSE LET p == ParseQuery(query)
                  IN  IF p.bad
                      THEN Outcome(cacheKey, FALSE, FALSE, FALSE, p, << >>, InvalidFrequency)
                      ELSE LET results == MatchEntries(p, mode)
                           IN  Outcome(cacheKey, FALSE, TRUE, HasCache, p, results,
                                       BuildResponse(results))

\* whether the cache holds an entry for the request when its handler starts
Holds(query, mode) ==
    HasCache /\ TruthyStr(query) /\ getCacheKey(query, mode) \in DOMAIN cache

\* the request as its client saw it answered
Answered(query, mode, startedAt, phaseSeen, cachedAtStart, out) ==
    [idx |-> done + 1, query |-> query, mode |-> mode, startedAt |-> startedAt,
     phaseSeen |-> phaseSeen, cachedAtStart |-> cachedAtStart,
     key |-> out.key, hit |-> out.hit, work |-> out.work, parsed |-> out.parsed,
     matched |-> out.matched, resp |-> out.resp]

\* the response goes out: the cache is written if the handler stores, and
\* the client sees the answer
Respond(query, mode, startedAt, phaseSeen, cachedAtStart, out) ==
    /\ cache' = IF out.store THEN CacheStore(out.key, out.resp) ELSE cache
    /\ last' = Answered(query, mode, startedAt, phaseSeen, cachedAtStart, out)
    /\ prev' = last
    /\ done' = done + 1

\* one request of a synchronous revision: the handler runs to its end
Search(query, mode) ==
    /\ variant \in SyncVariants
    /\ phase = "ready"
    /\ started < budget
    /\ <<query, mode>> \in workload
    /\ Respond(query, mode, done, phase, Holds(query, mode), Handle(query, mode))
    /\ started' = started + 1
    /\ UNCHANGED <<variant, workload, budget, phase, dbOk, dictionaryData, tagData,
                   tagIdMap, inflight>>

(***************************************************************************)
(* The SQLite revision                                                     *)
(***************************************************************************)
PERCENT == <<"%">>

\* SQLite's LIKE: % is any text, _ any one character, ASCII letters match
\* without regard to case
RECURSIVE Like(_, _)
Like(text, pattern) ==
    IF Len(pattern) = 0 THEN Len(text) = 0
    ELSE IF pattern[1] = "%"
    THEN Like(text, Tail(pattern)) \/ (Len(text) > 0 /\ Like(Tail(text), pattern))
    ELSE IF Len(text) = 0 THEN FALSE
    ELSE IF pattern[1] = "_" THEN Like(Tail(text), Tail(pattern))
    ELSE Lower(pattern[1]) = Lower(text[1]) /\ Like(Tail(text), Tail(pattern))

Contains(text, needle) == Like(text, PERCENT \o needle \o PERCENT)

\* the text json_extract(m, '$') returns for the meanings column
JsonText(meanings) ==
    <<"[">> \o Join([i \in 1..Len(meanings) |-> <<"\"">> \o meanings[i] \o <<"\"">>], COMMA)
            \o <<"]">>

\* the statement the handler builds: the term clause ("" when no branch of
\* the mode chain appended one), its parameter, and the tag id of the
\* `l LIKE ?` clause if there is one
Statement(clause, term, tagId) == [clause |-> clause, term |-> term, tagId |-> tagId]

\* the WHERE clause of a statement, evaluated on one row
RowMatches(row, stmt) ==
    LET tagOk == ~HasNum(stmt.tagId) \/ Contains(row.l, NumToStr(stmt.tagId[1]))
    IN  IF stmt.clause = "o = ?" THEN row.o = stmt.term
        ELSE IF stmt.clause = "l LIKE ?" THEN tagOk
        ELSE IF stmt.clause = "(t = ? OR r = ?)"
        THEN (row.t = stmt.term \/ row.r = stmt.term) /\ tagOk
        ELSE IF stmt.clause = "(t LIKE ? OR r LIKE ?)"
        THEN (Contains(row.t, stmt.term) \/ Contains(row.r, stmt.term)) /\ tagOk
        ELSE IF stmt.clause = "t = ? AND r = ?"
        THEN LET parts == Split(stmt.term, COMMA)
             IN  row.t = parts[1] /\ Len(parts) >= 2 /\ row.r = parts[2] /\ tagOk
        ELSE IF stmt.clause = "json_extract(m, '$') LIKE ?"
        THEN Contains(JsonText(row.m), stmt.term) /\ tagOk
        ELSE FALSE

\* ORDER BY o DESC: NULL ranks below every number; rows of equal rank stay
\* in table order
RECURSIVE InsertRow(_, _)
InsertRow(s, e) ==
    IF Len(s) = 0 THEN <<e>>
    ELSE IF ~HasNum(e.o) \/ (HasNum(Head(s).o) /\ Head(s).o[1] >= e.o[1])
    THEN <<Head(s)>> \o InsertRow(Tail(s), e)
    ELSE <<e>> \o s

RECURSIVE OrderFrom(_, _)
OrderFrom(sorted, rest) ==
    IF Len(rest) = 0 THEN sorted ELSE OrderFrom(InsertRow(sorted, Head(rest)), Tail(rest))

\* the rows db.all hands to the callback
SelectRows(stmt) ==
    OrderFrom(<< >>, SelectSeq(dictionaryData, LAMBDA row : RowMatches(row, stmt)))

\* a statement with no term clause reads "... WHERE  ORDER BY o DESC" or
\* "... WHERE  AND l LIKE ? ORDER BY o DESC": SQLite rejects it
SqlError(stmt) == ~dbOk \/ stmt.clause = ""

\* the term clause of the mode chain
ModeClause(mode) ==
    IF mode = EXACT THEN "(t = ? OR r = ?)"
    ELSE IF mode = ANY THEN "(t LIKE ? OR r LIKE ?)"
    ELSE IF mode = BOTH THEN "t = ? AND r = ?"
    ELSE IF mode \in {EN_EXACT, EN_ANY} THEN "json_extract(m, '$') LIKE ?"
    ELSE ""

\* the synchronous part of the sql handler: either it answers at once
\* (`done`), or it leaves a statement for db.all
BeginSql(query, mode) ==
    LET cacheKey == getCacheKey(query, mode)
        p == ParseQuery(query)
        tagId == GetId(tagIdMap, p.tagFilter)
        now(out) == [done |-> TRUE, out |-> out, stmt |-> Statement("", Null, NoNum)]
        later(stmt) == [done |-> FALSE,
                        out |-> Outcome(cacheKey, FALSE, FALSE, FALSE, p, << >>, Null),
                        stmt |-> stmt]
        unknownTag == now(Outcome(cacheKey, FALSE, FALSE, FALSE, p, << >>, Ok(<< >>)))
    IN  IF QueryMissing(query)
        THEN now(Outcome(Null, FALSE, FALSE, FALSE, NoParse, << >>, MissingQuery))
        ELSE IF CacheHit(cacheKey)
        THEN now(Outcome(cacheKey, TRUE, FALSE, FALSE, NoParse, << >>, cache[cacheKey]))
        ELSE IF p.bad
        THEN now(Outcome(cacheKey, FALSE, FALSE, FALSE, p, << >>, InvalidFrequency))
        ELSE IF HasNum(p.frequencyFilter)
        THEN later(Statement("o = ?", p.frequencyFilter, NoNum))
        ELSE IF p.tagOnlySearch
        THEN (IF ~TruthyNum(tagId) THEN unknownTag
              ELSE later(Statement("l LIKE ?", Null, tagId)))
        ELSE IF TruthyStr(p.tagFilter)
        THEN (IF ~TruthyNum(tagId) THEN unknownTag
              ELSE later(Statement(ModeClause(mode), p.searchTerm, tagId)))
        ELSE later(Statement(ModeClause(mode), p.searchTerm, NoNum))

\* loadTagData's db.all callback: initialize() was called without being
\* awaited, so this runs whenever the database answers
TagsLoaded ==
    /\ variant = "sql"
    /\ phase = "loading"
    /\ tagIdMap' = IF dbOk THEN TagIds ELSE EmptyMap
    /\ tagData' = IF dbOk THEN TagDescriptions(TRUE) ELSE EmptyMap
    /\ phase' = "ready"
    /\ UNCHANGED <<variant, workload, budget, dbOk, dictionaryData, cache, inflight,
                   started, done, last, prev>>

\* the handler either answers at once or leaves its request with db.all
BeginStep(query, mode, b) ==
    IF b.done
    THEN /\ Respond(query, mode, done, phase, Holds(query, mode), b.out)
         /\ UNCHANGED inflight
    ELSE /\ inflight' = inflight \cup
                {[id |-> started + 1, query |-> query, mode |-> mode,
                  startedAt |-> done, phaseSeen |-> phase, out |-> b.out,
                  stmt |-> b.stmt]}
         /\ UNCHANGED <<cache, last, prev, done>>

\* app.get("/api/search", async (req, res) => ...) up to db.all(sql, params, ...)
SearchBegin(query, mode) ==
    /\ variant = "sql"
    /\ started < budget
    /\ Cardinality(inflight) < MaxInFlight
    /\ <<query, mode>> \in workload
    /\ started' = started + 1
    /\ BeginStep(query, mode, BeginSql(query, mode))
    /\ UNCHANGED <<variant, workload, budget, phase, dbOk, dictionaryData, tagData,
                   tagIdMap>>

\* what the callback of db.all makes of a request: an error, or the rows
CallbackOutcome(req, rows) ==
    IF SqlError(req.stmt)
    THEN [req.out EXCEPT !.resp = DatabaseError]
    ELSE [req.out EXCEPT !.work = TRUE, !.store = TRUE, !.matched = rows,
                         !.resp = Ok(formattedResults(rows))]

\* the callback of db.all(sql, params, (err, rows) => ...)
SearchCallback(req) ==
    /\ variant = "sql"
    /\ req \in inflight
    /\ inflight' = inflight \ {req}
    /\ Respond(req.query, req.mode, req.startedAt, req.phaseSeen, FALSE,
               CallbackOutcome(req, SelectRows(req.stmt)))
    /\ UNCHANGED <<variant, workload, budget, phase, dbOk, dictionaryData, tagData,
                   tagIdMap, started>>

(***************************************************************************)
(* Specifications                                                          *)
(***************************************************************************)
Next ==
    \/ \E tagOk, idOk, dictOk \in BOOLEAN : loadData(tagOk, idOk, dictOk)
    \/ \E query \in Queries, mode \in Modes : Search(query, mode)
    \/ TagsLoaded
    \/ \E query \in Queries, mode \in Modes : SearchBegin(query, mode)
    \/ \E req \in inflight : SearchCallback(req)

Spec == Init /\ [][Next]_vars

\* the synchronous revisions
NextSync ==
    \/ \E tagOk, idOk, dictOk \in BOOLEAN : loadData(tagOk, idOk, dictOk)
    \/ \E query \in Queries, mode \in Modes : Search(query, mode)

\* the json revision alone (src/server.js:1-163)
InitJson == Start({"json"}, MaxRequests)
SpecJson == InitJson /\ [][NextSync]_vars

\* the bounded revision alone, with requests enough to pass the threshold
InitBounded == Start({"bounded"}, CacheThreshold + 2)
SpecBounded == InitBounded /\ [][NextSync]_vars

\* the SQLite revision alone
NextSql ==
    \/ TagsLoaded
    \/ \E query \in Queries, mode \in Modes : SearchBegin(query, mode)
    \/ \E req \in inflight : SearchCallback(req)

InitSql == Start({"sql"}, MaxRequests)
SpecSql == InitSql /\ [][NextSql]_vars

\* the synchronous revisions under the colliding workload
InitCollide == StartWith(SyncVariants, MaxRequests, {CollidingWorkload})
SpecCollide == InitCollide /\ [][NextSync]_vars

(***************************************************************************)
(* Properties                                                              *)
(***************************************************************************)
Seen(r) == r.idx > 0

\* `last` was issued after `prev` had been answered
Sequential == Seen(prev) /\ Seen(last) /\ last.startedAt >= prev.idx

SameRequest == last.query = prev.query /\ last.mode = prev.mode

\* C1: for a fixed (rawQuery, mode), once the service is up, the second of
\* two sequential successful searches returns the response of the first, is
\* answered from the cache and matches nothing anew.
C1_SecondCallFromCache ==
    (/\ HasCache
     /\ Sequential
     /\ SameRequest
     /\ prev.phaseSeen = "ready"
     /\ last.phaseSeen = "ready"
     /\ prev.resp.status = 200)
    => (last.resp = prev.resp /\ last.hit /\ ~last.work)

KeyMode(mode) == IF mode \in {Undefined, << >>} THEN <<"d","e","f","a","u","l","t">> ELSE mode

C3_ClearAllEviction ==
    [][ /\ Cardinality(DOMAIN cache') <= CacheThreshold + 1
        /\ (cache' # cache) =>
              IF Cardinality(DOMAIN cache) > CacheThreshold
              THEN DOMAIN cache' = {last'.key} /\ cache'[last'.key] = last'.resp
              ELSE /\ DOMAIN cache' = DOMAIN cache \cup {last'.key}
                   /\ \A k \in DOMAIN cache : cache'[k] = cache[k]
                   /\ cache'[last'.key] = last'.resp ]_vars

\* two inserts in a row, and the cache holds one entry: the second cleared it
C3_Witness ==
    /\ variant = "bounded"
    /\ done = CacheThreshold + 2
    /\ prev.work
    /\ last.work
    /\ DOMAIN cache = {last.key}

\* C4: a search whose rawQuery is empty or absent is answered with the
\* MissingQuery client error, parses and matches nothing, and leaves the
\* cache as it was.
C4_MissingQuery ==
    [][ (done' = done + 1 /\ last'.query \in {Undefined, << >>})
          => /\ last'.resp = MissingQuery
             /\ ~last'.work
             /\ ~last'.hit
             /\ last'.parsed = NoParse
             /\ cache' = cache ]_vars

\* an empty query was refused while the cache held an entry
C4_Witness ==
    /\ Seen(last)
    /\ last.query = << >>
    /\ last.resp = MissingQuery
    /\ cache # EmptyMap

\* an optional sign followed by decimal digits, and nothing else
IsInteger(s) ==
    LET u == IF Len(s) > 0 /\ s[1] \in {"-", "+"} THEN Tail(s) ELSE s
    IN  Len(u) > 0 /\ \A i \in 1..Len(u) : \E d \in 1..Len(Digits) : Digits[d] = u[i]

HASHFRQ == <<"#","f","r","q">>
SPHASHFRQ == <<" ","#","f","r","q">>

\* the query reads `#frq<suffix>` or `<term> #frq<suffix>`
FrqForm(query) ==
    /\ TruthyStr(query)
    /\ \/ StartsWith(query, HASHFRQ)
       \/ /\ ~StartsWith(query, <<"#">>)
          /\ Includes(query, SPHASHFRQ)
          /\ IndexOf(query, SPHASHFRQ) = IndexOf(query, <<" ","#">>)

\* the trimmed suffix of such a query
FrqSuffix(query) ==
    IF StartsWith(query, HASHFRQ) THEN Trim(Substring(query, Len(HASHFRQ)))
    ELSE Trim(Substring(query, IndexOf(query, SPHASHFRQ) - 1 + Len(SPHASHFRQ)))

\* C5: a search of the form `#frq<suffix>` or `<term> #frq<suffix>` whose
\* trimmed suffix is not an integer is answered with the InvalidFrequency
\* client error, matches nothing, and no cache entry exists for its key.
C5_NonIntegerSuffixRejected ==
    (Seen(last) /\ FrqForm(last.query) /\ ~IsInteger(FrqSuffix(last.query)))
    => (last.resp = InvalidFrequency /\ ~last.work /\ last.key \notin DOMAIN cache)

\* C6: every request is handled after the startup load has ended.
C6_NoRequestBeforeLoad ==
    /\ Seen(last) => last.phaseSeen = "ready"
    /\ \A req \in inflight : req.phaseSeen = "ready"

\* C7 as stated: the lookup-then-insert of a request is never interleaved
\* with another request for the same key, so no two requests are between
\* their lookup and their insert of one key at once.
C7_NoInterleavedLookupInsert ==
    \A a \in inflight, b \in inflight : a.out.key = b.out.key => a = b

\* C7 as amended: every lookup and every insert is one step, so a cache
\* entry is always a whole successful response and a request that finds its
\* key at its lookup matches nothing; in the synchronous revisions no
\* request is ever between lookup and insert; matching work for one key is
\* done by two requests answered in a row only in the SQLite revision and
\* only when the second was issued before the first was answered.
C7_OnlyOverlapDuplicates ==
    /\ \A k \in DOMAIN cache :
          cache[k].status = 200 /\ cache[k].totalResults = Len(cache[k].results)
    /\ (Seen(last) /\ last.cachedAtStart) => (last.hit /\ ~last.work)
    /\ variant # "sql" => inflight = {}
    /\ (Seen(prev) /\ Seen(last) /\ HasCache /\ prev.work /\ last.work
          /\ prev.key = last.key)
         => (variant = "sql" /\ last.startedAt < prev.idx)

\* two overlapping requests for one key both matched and both stored
C7_Witness ==
    /\ Seen(prev)
    /\ prev.work
    /\ last.work
    /\ prev.key = last.key
    /\ last.startedAt < prev.idx
    /\ last.key \in DOMAIN cache

\* whether the tag resolver of the running revision lacks the symbol
UnknownTag(tag) ==
    IF variant \in {"json", "sql", "termid"} THEN tag \notin DOMAIN tagIdMap
    ELSE tag \notin DOMAIN tagData

InMatched(entry) == \E i \in 1..Len(last.matched) : last.matched[i] = entry

\* the parsed query of `last` has a term and no tag or frequency filter
Unfiltered(p) ==
    ~p.tagOnlySearch /\ ~HasNum(p.frequencyFilter) /\ ~TruthyStr(p.tagFilter)

\* C9 as stated: an exact-mode search whose search term is the term of an
\* entry returns that entry.
C9_ExactFindsTerm ==
    (Seen(last) /\ last.work /\ last.mode = <<"e","x","a","c","t">>)
    => \A i \in 1..Len(dictionaryData) :
          dictionaryData[i].t = last.parsed.searchTerm => InMatched(dictionaryData[i])

\* C9 as amended: a successful exact-mode search with no tag filter and no
\* frequency filter whose search term is the term of an entry returns that
\* entry.
C9_ExactFindsTermUnfiltered ==
    (Seen(last) /\ last.work /\ last.mode = <<"e","x","a","c","t">>
       /\ Unfiltered(last.parsed))
    => \A i \in 1..Len(dictionaryData) :
          dictionaryData[i].t = last.parsed.searchTerm => InMatched(dictionaryData[i])

\* the exact search for "a" returned the entries whose term is "a"
C9_Witness ==
    /\ Seen(last)
    /\ last.work
    /\ last.mode = <<"e","x","a","c","t">>
    /\ Unfiltered(last.parsed)
    /\ last.parsed.searchTerm = <<"a">>
    /\ \E i \in 1..Len(dictionaryData) : dictionaryData[i].t = <<"a">>
    /\ Len(last.matched) > 0

CommaCount(s) == Cardinality({i \in 1..Len(s) : s[i] = ","})

\* the entries whose term is the text before the one comma of s and whose
\* reading is the text after it; none when s has no comma
PairedEntries(s) ==
    IF CommaCount(s) # 1 THEN {}
    ELSE {dictionaryData[i] : i \in {j \in 1..Len(dictionaryData) :
              /\ dictionaryData[j].t = SubSeq(s, 1, IndexOf(s, <<",">>) - 1)
              /\ dictionaryData[j].r = SubSeq(s, IndexOf(s, <<",">>) + 1, Len(s))}}

MatchedSet == {last.matched[i] : i \in 1..Len(last.matched)}

\* C10 as stated: in both mode the matched entries are those whose term is
\* the part before the comma and whose reading is the part after it, and a
\* search term without a comma matches nothing.
C10_BothPairsTermAndReading ==
    (Seen(last) /\ last.work /\ last.mode = <<"b","o","t","h">>
       /\ CommaCount(last.parsed.searchTerm) <= 1)
    => (MatchedSet = PairedEntries(last.parsed.searchTerm) /\ last.resp.status = 200)

\* C10 as amended: the same, for a both-mode search whose parsed query has
\* no tag filter and no frequency filter.
C10_BothPairsUnfiltered ==
    (Seen(last) /\ last.work /\ last.mode = <<"b","o","t","h">>
       /\ Unfiltered(last.parsed)
       /\ CommaCount(last.parsed.searchTerm) <= 1)
    => (MatchedSet = PairedEntries(last.parsed.searchTerm) /\ last.resp.status = 200)

\* the both-mode search for "a,b" returned the entries with that pair
C10_Witness ==
    /\ Seen(last)
    /\ last.work
    /\ last.mode = <<"b","o","t","h">>
    /\ last.parsed.searchTerm = <<"a",",","b">>
    /\ MatchedSet # {}
    /\ MatchedSet = PairedEntries(<<"a",",","b">>)

GroupingVariants == {"grouped", "bounded", "nocache"}

\* the (term, reading) pairs of the matched entries of `last`
MatchedPairs == {<<last.matched[i].t, last.matched[i].r>> : i \in 1..Len(last.matched)}

RECURSIVE SumMeanings(_, _)
\* the meanings count of the entries of `entries` whose pair is `pair`
SumMeanings(entries, pair) ==
    IF Len(entries) = 0 THEN 0
    ELSE (IF <<Head(entries).t, Head(entries).r>> = pair THEN Len(Head(entries).m) ELSE 0)
         + SumMeanings(Tail(entries), pair)

\* C11: the grouped response holds exactly one record per distinct
\* (term, reading) pair of the matched entries, and the meanings list of the
\* record of a pair is as long as the meanings of the matched entries of
\* that pair taken together.
C11_OneRecordPerPair ==
    (Seen(last) /\ last.work /\ variant \in GroupingVariants)
    => /\ Len(last.resp.results) = Cardinality(MatchedPairs)
       /\ \A pair \in MatchedPairs :
             \E i \in 1..Len(last.resp.results) :
                /\ last.resp.results[i].term = pair[1]
                /\ last.resp.results[i].reading = pair[2]
                /\ Len(last.resp.results[i].meanings) = SumMeanings(last.matched, pair)

\* the text of `query` before its first " #", and the text after it
BeforeFirstFilter(query) == SubSeq(query, 1, IndexOf(query, <<" ","#">>) - 1)
AfterFirstFilter(query) == SubSeq(query, IndexOf(query, <<" ","#">>) + 2, Len(query))

\* C12: a query that does not start with `#` and contains " #" is split once
\* at the first " #": the search term is the trimmed text before it, and the
\* whole text after it is the filter, a frequency filter when it starts
\* with `frq` and the tag filter otherwise.
C12_SplitOnceAtFirstFilter ==
    (/\ Seen(last)
     /\ last.work
     /\ ~StartsWith(last.query, <<"#">>)
     /\ Includes(last.query, <<" ","#">>))
    => /\ last.parsed.searchTerm = Trim(BeforeFirstFilter(last.query))
       /\ IF StartsWith(AfterFirstFilter(last.query), <<"f","r","q">>)
          THEN HasNum(last.parsed.frequencyFilter) /\ ~TruthyStr(last.parsed.tagFilter)
          ELSE /\ last.parsed.tagFilter = Trim(AfterFirstFilter(last.query))
               /\ ~HasNum(last.parsed.frequencyFilter)

\* C13: a query that is `#` followed by nothing but whitespace selects every
\* entry of the store and succeeds.
C13_BareHashSelectsAll ==
    (/\ Seen(last)
     /\ last.work
     /\ StartsWith(last.query, <<"#">>)
     /\ Trim(Substring(last.query, 1)) = << >>)
    => /\ last.resp.status = 200
       /\ MatchedSet = {dictionaryData[i] : i \in 1..Len(dictionaryData)}

\* C14: the matched entries of a successful search are in descending order
\* of frequency rank, and no entry without a rank stands before an entry
\* that has one.
C14_DescendingRank ==
    (Seen(last) /\ last.work)
    => \A i \in 1..Len(last.matched), j \in 1..Len(last.matched) :
          (i < j /\ HasNum(last.matched[j].o))
            => /\ HasNum(last.matched[i].o)
               /\ last.matched[i].o[1] >= last.matched[j].o[1]

\* the part-of-speech tags of an entry together with its extra tags
CombinedTags(entry) ==
    {SplitTags(entry.pos)[i] : i \in 1..Len(SplitTags(entry.pos))}
      \cup {SplitTags(entry.extra)[i] : i \in 1..Len(SplitTags(entry.extra))}

\* C15: a tag-only query with a known, non-empty tag symbol selects exactly
\* the entries whose combined tag set holds that symbol.
C15_TagOnlySelectsCarriers ==
    (/\ Seen(last)
     /\ last.work
     /\ last.parsed.tagOnlySearch
     /\ TruthyStr(last.parsed.tagFilter)
     /\ ~UnknownTag(last.parsed.tagFilter))
    => MatchedSet = {dictionaryData[i] : i \in {j \in 1..Len(dictionaryData) :
                        last.parsed.tagFilter \in CombinedTags(dictionaryData[j])}}

\* C16: in en_exact mode, with no tag or frequency filter, the selected
\* entries are exactly those with a meaning equal to the search term, case
\* ignored.
C16_EnExactIsEquality ==
    (/\ Seen(last)
     /\ last.work
     /\ last.mode = <<"e","n","_","e","x","a","c","t">>
     /\ Unfiltered(last.parsed))
    => MatchedSet = {dictionaryData[i] : i \in {j \in 1..Len(dictionaryData) :
                        \E k \in 1..Len(dictionaryData[j].m) :
                           ToLowerCase(dictionaryData[j].m[k])
                             = ToLowerCase(last.parsed.searchTerm)}}

KnownModes == { <<"e","x","a","c","t">>, <<"a","n","y">>, <<"b","o","t","h">>,
                <<"e","n","_","e","x","a","c","t">>, <<"e","n","_","a","n","y">> }

\* the parsed query is a tag-only or a frequency query
FilterAlone(p) == p.tagOnlySearch \/ HasNum(p.frequencyFilter)

\* C17: with the database open, a search with an absent or unrecognized mode
\* whose query is accepted succeeds; with no tag or frequency filter it
\* returns zero entries; and two tag-only or frequency-only searches for
\* one query select the same entries whatever their modes.
C17_UnknownModeIsEmptySuccess ==
    /\ (Seen(last) /\ dbOk /\ TruthyStr(last.query) /\ last.mode \notin KnownModes
          /\ ~ParseQuery(last.query).bad)
         => /\ last.resp.status = 200
            /\ Unfiltered(ParseQuery(last.query)) => last.resp = Ok(<< >>)
    /\ (Seen(prev) /\ Seen(last) /\ prev.work /\ last.work
          /\ prev.query = last.query /\ FilterAlone(last.parsed))
         => prev.matched = last.matched

\* C18: when the parsed query carries a frequency filter n, the selected
\* entries are exactly the entries of rank n, whatever the search term and
\* the mode; the response is a success listing them, empty when no entry
\* has rank n.
C18_FrequencyIsSoleSelector ==
    (Seen(last) /\ last.work /\ HasNum(last.parsed.frequencyFilter))
    => /\ MatchedSet = {dictionaryData[i] : i \in {j \in 1..Len(dictionaryData) :
                           dictionaryData[j].o = last.parsed.frequencyFilter}}
       /\ last.resp.status = 200
       /\ last.resp.totalResults = Len(last.matched)
       /\ Len(last.resp.results) = Len(last.matched)

\* `a #frq5` in exact mode returned an entry of rank 5 whose term and
\* reading are not `a`
C18_Witness ==
    /\ Seen(last)
    /\ last.work
    /\ last.mode = <<"e","x","a","c","t">>
    /\ last.parsed.searchTerm = <<"a">>
    /\ last.parsed.frequencyFilter = <<5>>
    /\ \E i \in 1..Len(last.matched) :
          last.matched[i].t # <<"a">> /\ last.matched[i].r # <<"a">>
    /\ last.resp.totalResults = 2

\* the response a synchronous revision computes for a request when it does
\* not look into the cache
Uncached(query, mode) == BuildResponse(MatchEntries(ParseQuery(query), mode))

\* C19: a response served from the cache for a request equals the response
\* computed for that request without the cache.
C19_CacheServesOwnResponse ==
    (Seen(last) /\ last.hit) => last.resp = Uncached(last.query, last.mode)

====
